---- MODULE Spec2Model ----
(***************************************************************************)
(* The strategy-racing sitemap fetcher (fetchSitemapTextRaced) as a state  *)
(* machine over the browser event loop: tasks (network completions, timer  *)
(* callbacks, the caller's abort) and the FIFO microtask queue on which    *)
(* the promise reactions of the race run.                                  *)
(***************************************************************************)
EXTENDS Integers, Sequences, FiniteSets, TLC

(***************************************************************************)
(* Program constants.                                                      *)
(***************************************************************************)
\* Math.max(4000, ...): the floor of the per-strategy timeout
MinPerStrategyMs == 4000
\* config.perStrategyTimeoutMs ?? 12000
DefaultPerStrategyMs == 12000
\* config.overallTimeoutMs ?? 15000
DefaultOverallMs == 15000
\* Math.min(25000, ...): the cap of the API strategy's timeout
ApiCapMs == 25000
\* Math.max(perStrategyTimeoutMs, 12000): the floor of the API strategy's timeout
ApiFloorMs == 12000
\* the Direct strategy's fixed timeout
DirectMs == 8000
\* the four strategies.push(...) calls
NumStrategies == 4

Strategies == 1..NumStrategies

\* strategies[i].name
StrategyName(i) ==
  CASE i = 1 -> "API"
    [] i = 2 -> "Direct"
    [] i = 3 -> "AllOrigins"
    [] OTHER -> "Jina"

\* an option the caller left out (undefined)
Undef == -1

Max(a, b) == IF a >= b THEN a ELSE b
Min(a, b) == IF a <= b THEN a ELSE b

\* Math.round(ms / 1000) for ms >= 0
RoundSeconds(ms) == (ms + 500) \div 1000

(***************************************************************************)
(* Texts are sequences of lexical tokens: "<", "sp" (white space), "ns:"   *)
(* (a namespace prefix with its colon), the element names, "w" (one more   *)
(* word character) and other markup.                                       *)
(***************************************************************************)
RootNames == {"urlset", "URLSET", "sitemapindex"}

\* the position after zero or more white-space tokens starting at p
RECURSIVE SkipSpace(_, _)
SkipSpace(t, p) ==
  IF p <= Len(t) /\ t[p] = "sp" THEN SkipSpace(t, p + 1) ELSE p

\* [RootNames at q, then a word boundary]
NameAt(t, q) ==
  /\ q <= Len(t)
  /\ t[q] \in RootNames
  /\ (IF q = Len(t) THEN TRUE ELSE t[q + 1] # "w")

\* does the pattern match with its "<" at position p
MatchAt(t, p) ==
  /\ t[p] = "<"
  /\ LET q == SkipSpace(t, p + 1)
     IN  IF q <= Len(t) /\ t[q] = "ns:" THEN NameAt(t, q + 1) ELSE NameAt(t, q)

\* a gate that accepts every text
IsLikelySitemapXmlAny(t) == TRUE

\* a gate that knows no namespace prefix
IsLikelySitemapXmlNoPrefix(t) ==
  \E p \in 1..Len(t) : t[p] = "<" /\ NameAt(t, SkipSpace(t, p + 1))

\* /<\s*(?:[A-Za-z_][\w.-]*:)?(urlset|sitemapindex)\b/i.test(text)
IsLikelySitemapXml(t) == \E p \in 1..Len(t) : MatchAt(t, p)

XmlA == <<"<", "urlset", ">">>
XmlB == <<"<", "sp", "ns:", "sitemapindex">>
HtmlPage == <<"<", "html", ">">>
NearMiss == <<"<", "urlset", "w">>

\* the texts a strategy can come back with
Texts == {XmlA, XmlB, HtmlPage}

(***************************************************************************)
(* Messages of Error objects: a phrase and a number.                       *)
(***************************************************************************)
Msg(m, n) == [m |-> m, n |-> n]

\* new Error(`timeout after ${Math.round(timeoutMs / 1000)}s`)
TimeoutMsg(ms) == Msg("timeout after", RoundSeconds(ms))
NotXmlMsg == Msg("not sitemap XML", 0)
\* new Error(`HTTP ${res.status}`), and the TypeError of a failed fetch
HttpMsg == Msg("HTTP", 403)
NetMsg == Msg("Failed to fetch", 0)
\* the AbortError a fetch rejects with when its signal is aborted
AbortMsg == Msg("The operation was aborted", 0)
\* what the Jina adapter throws when it throws
AdapterMsg == Msg("adapter error", 0)

\* /aborted|abort/i.test(msg)
MentionsAbort(msg) == msg = AbortMsg


(***************************************************************************)
(* Inputs of one call: the target (a sequence of characters, "sp" being    *)
(* white space), the two configured timeouts and the caller's signal.      *)
(***************************************************************************)
Targets == {<<>>, <<"sp">>, <<"sp", "u", "sp">>}
\* <<config.perStrategyTimeoutMs, config.overallTimeoutMs>>
Configs ==
  {<<Undef, Undef>>, <<1000, 1000>>, <<1000, Undef>>, <<30000, Undef>>,
   <<10000, 20000>>}
SignalChoices == {"none", "live", "aborted"}

RECURSIVE TrimLeft(_)
TrimLeft(s) == IF s # <<>> /\ Head(s) = "sp" THEN TrimLeft(Tail(s)) ELSE s

RECURSIVE TrimRight(_)
TrimRight(s) ==
  IF s # <<>> /\ s[Len(s)] = "sp" THEN TrimRight(SubSeq(s, 1, Len(s) - 1)) ELSE s

\* a target that is not trimmed
TrimNone(s) == s

\* targetUrl.trim()
Trim(s) == TrimRight(TrimLeft(s))

\* a floor that is not applied
PerStrategyTimeoutMsNoFloor(p) == IF p = Undef THEN DefaultPerStrategyMs ELSE p

\* Math.max(4000, config.perStrategyTimeoutMs ?? 12000)
PerStrategyTimeoutMs(p) ==
  Max(MinPerStrategyMs, IF p = Undef THEN DefaultPerStrategyMs ELSE p)

\* Math.max(perStrategyTimeoutMs, config.overallTimeoutMs ?? 15000)
OverallTimeoutMs(per, o) == Max(per, IF o = Undef THEN DefaultOverallMs ELSE o)

\* the timeoutMs each strategy hands to fetchTextWithTimeout
StrategyTimeoutMs(i, per) ==
  CASE i = 1 -> Min(ApiCapMs, Max(per, ApiFloorMs))
    [] i = 2 -> DirectMs
    [] OTHER -> per

(***************************************************************************)
(* Promise values and strategy outcomes.  Record fields are written in the  *)
(* order in which TLC keeps them.                                          *)
(***************************************************************************)
Pending ==
  [n |-> 0, cause |-> "", entries |-> <<>>, kind |-> "pending", name |-> "",
   text |-> <<>>]
\* resolve({ name: s.name, text })
Resolved(name, text) ==
  [n |-> 0, cause |-> "", entries |-> <<>>, kind |-> "resolved", name |-> name,
   text |-> text]
Rejected(cause, entries, n) ==
  [n |-> n, cause |-> cause, entries |-> entries, kind |-> "rejected",
   name |-> "", text |-> <<>>]

\* new Error("URL is required")
ConfigError == Rejected("URL is required", <<>>, 0)
\* new Error(`All strategies failed: ${errors.join(" | ")}`)
AllFailedError(errs) == Rejected("All strategies failed", errs, 0)
\* new Error(`All strategies timed out after ${Math.round(overallTimeoutMs / 1000)}s`)
OverallTimeoutError(ms) == Rejected("All strategies timed out after", <<>>, RoundSeconds(ms))
\* new Error("Cancelled")
CancelledError == Rejected("Cancelled", <<>>, 0)

NoOut == [msg |-> Msg("", 0), kind |-> "none", text |-> <<>>]
TextOut(t) == [msg |-> Msg("", 0), kind |-> "text", text |-> t]
ErrOut(m) == [msg |-> m, kind |-> "err", text |-> <<>>]

Job(k, i) == [i |-> i, k |-> k]

VARIABLES
  targetUrl,     \* the targetUrl argument
  perCfg,        \* config.perStrategyTimeoutMs
  overallCfg,    \* config.overallTimeoutMs
  signalCfg,     \* config.signal as the call finds it: "none", "live", "aborted"
  extSig,        \* config.signal: "none", "live" or "aborted"
  extListeners,  \* the race's listeners on config.signal, in registration order
  dispatching,   \* listeners still to be called by an abort dispatch in progress
  phase,         \* "init", "running", "settled"
  perMs,         \* perStrategyTimeoutMs
  overallMs,     \* overallTimeoutMs
  raceAborted,   \* raceAbort.signal.aborted
  ovTimer,       \* the overall timer: "none", "pending", "fired", "cleared"
  st,            \* per strategy: "idle", "inflight", "settled", "thrown",
                 \*   "recorded", "won", "ignored"
  out,           \* per strategy: what its run promise settled with
  why,           \* per strategy: "own" or "shared" when an abort ended it
  tmr,           \* per strategy timer: "none", "pending", "fired", "cleared"
  linked,        \* per strategy: its listener is on raceAbort.signal
  launches,      \* per strategy: number of calls of run
  sawAborted,    \* per strategy: raceAbort.signal.aborted when run was called
  signalled,     \* per strategy: number of abort events it received
  recordedAt,    \* per strategy: the time its reason was pushed to errors
  due,           \* per strategy: the time its timer is set to fire
  settleOrder,   \* the strategies in the order in which their run promises settled
  errors,        \* the errors array: <<name, message>> entries
  completed,     \* the runner's completed counter
  done,          \* the runner's done flag
  runnerP,       \* the promise of runner()
  overallP,      \* the overallTimeout promise
  raceP,         \* the promise of Promise.race([runner(), overallTimeout])
  result,        \* the promise returned to the caller
  settles,       \* how many times the returned promise was settled
  mq,            \* the microtask queue
  now,           \* the time of the last timer callback
  earlyCancel    \* the caller aborted a started race before any strategy settled

vars ==
  <<targetUrl, perCfg, overallCfg, signalCfg, extSig, extListeners, dispatching, phase,
    perMs, overallMs, raceAborted, ovTimer, st, out, why, tmr, linked, launches,
    sawAborted, signalled, recordedAt, due, settleOrder, errors, completed, done,
    runnerP,
    overallP, raceP, result, settles, mq, now, earlyCancel>>

inputVars == <<targetUrl, perCfg, overallCfg, signalCfg>>
stratVars ==
  <<st, out, why, tmr, linked, launches, sawAborted, signalled, recordedAt, due,
    settleOrder>>
runnerVars == <<errors, completed, done, runnerP>>

Init ==
  /\ targetUrl \in Targets
  /\ \E c \in Configs : perCfg = c[1] /\ overallCfg = c[2]
  /\ signalCfg \in SignalChoices
  /\ extSig = signalCfg
  /\ extListeners = <<>>
  /\ dispatching = <<>>
  /\ phase = "init"
  /\ perMs = 0
  /\ overallMs = 0
  /\ raceAborted = FALSE
  /\ ovTimer = "none"
  /\ st = [i \in Strategies |-> "idle"]
  /\ out = [i \in Strategies |-> NoOut]
  /\ why = [i \in Strategies |-> ""]
  /\ tmr = [i \in Strategies |-> "none"]
  /\ linked = [i \in Strategies |-> FALSE]
  /\ launches = [i \in Strategies |-> 0]
  /\ sawAborted = [i \in Strategies |-> FALSE]
  /\ signalled = [i \in Strategies |-> 0]
  /\ recordedAt = [i \in Strategies |-> 0]
  /\ due = [i \in Strategies |-> 0]
  /\ settleOrder = <<>>
  /\ errors = <<>>
  /\ completed = 0
  /\ done = FALSE
  /\ runnerP = Pending
  /\ overallP = Pending
  /\ raceP = Pending
  /\ result = Pending
  /\ settles = 0
  /\ mq = <<>>
  /\ now = 0
  /\ earlyCancel = FALSE

(***************************************************************************)
(* linkAbortSignals(from, to), from being "none", "live" or "aborted".     *)
(***************************************************************************)
\* a link that never looks at from.aborted
LinkAbortsNowNever(from) == FALSE

\* if (from.aborted) { to.abort(); ... }
LinkAbortsNow(from) == from = "aborted"

\* a link that never adds its listener
LinkAttachesNever(from) == FALSE

\* from.addEventListener("abort", handler, { once: true })
LinkAttaches(from) == from = "live"

\* a loop that queues the first strategy once more
LaunchJobsRetry == [i \in Strategies |-> Job("launch", i)] \o <<Job("launch", 1)>>

\* the launch jobs queued by the runner's loop, in the order of the strategies
LaunchJobs == [i \in Strategies |-> Job("launch", i)]

(***************************************************************************)
(* The synchronous part of fetchSitemapTextRaced, up to its await.         *)
(***************************************************************************)
StartEmpty ==
  /\ phase = "init"
  /\ Trim(targetUrl) = <<>>
  /\ phase' = "settled"
  /\ result' = ConfigError
  /\ settles' = settles + 1
  /\ UNCHANGED <<inputVars, extSig, extListeners, dispatching, perMs, overallMs,
                 raceAborted, ovTimer, stratVars, runnerVars, overallP, raceP,
                 mq, now, earlyCancel>>

\* a race started without its overall timer
StartNoTimer ==
  /\ phase = "init"
  /\ Trim(targetUrl) # <<>>
  /\ phase' = "running"
  /\ perMs' = PerStrategyTimeoutMs(perCfg)
  /\ overallMs' = OverallTimeoutMs(perMs', overallCfg)
  /\ raceAborted' = LinkAbortsNow(extSig)
  /\ extListeners' =
       (IF LinkAttaches(extSig) THEN <<"link">> ELSE <<>>)
         \o (IF extSig # "none" THEN <<"cancel">> ELSE <<>>)
  /\ mq' = LaunchJobs
  /\ UNCHANGED <<inputVars, extSig, dispatching, ovTimer, stratVars, runnerVars,
                 overallP, raceP, result, settles, now, earlyCancel>>

Start ==
  /\ phase = "init"
  /\ Trim(targetUrl) # <<>>
  /\ phase' = "running"
  /\ perMs' = PerStrategyTimeoutMs(perCfg)
  /\ overallMs' = OverallTimeoutMs(perMs', overallCfg)
  /\ raceAborted' = LinkAbortsNow(extSig)
  /\ ovTimer' = "pending"
  /\ extListeners' =
       (IF LinkAttaches(extSig) THEN <<"link">> ELSE <<>>)
         \o (IF extSig # "none" THEN <<"cancel">> ELSE <<>>)
  /\ mq' = LaunchJobs
  /\ UNCHANGED <<inputVars, extSig, dispatching, stratVars, runnerVars,
                 overallP, raceP, result, settles, now, earlyCancel>>


(***************************************************************************)
(* raceAbort.abort(): every invocation whose listener is on                *)
(* raceAbort.signal aborts its own controller, its fetch rejects with an   *)
(* AbortError, and fetchTextWithTimeout's catch and finally run.           *)
(***************************************************************************)
\* the invocations an abort of raceAbort reaches: none if it is aborted already
AbortHit == IF raceAborted THEN {} ELSE {i \in Strategies : linked[i]}

\* a catch that reports every rejection as a timeout
FetchCatchAlwaysTimeout(msg, ms) == TimeoutMsg(ms)

\* a catch that rethrows what it caught
FetchCatchNoRewrite(msg, ms) == msg

\* catch (e) { if (/aborted|abort/i.test(msg)) throw new Error(`timeout after ...`); throw e; }
FetchCatch(msg, ms) == IF MentionsAbort(msg) THEN TimeoutMsg(ms) ELSE msg

\* what an aborted invocation of strategy i rejects with
AbortedOut(i) == ErrOut(FetchCatch(AbortMsg, StrategyTimeoutMs(i, perMs)))

\* an abort that leaves the timers of the aborted invocations set
TmrAbortKeeps(H) == tmr

StAbort(H) == [i \in Strategies |-> IF i \in H THEN "settled" ELSE st[i]]
OutAbort(H) == [i \in Strategies |-> IF i \in H THEN AbortedOut(i) ELSE out[i]]
WhyAbort(H) == [i \in Strategies |-> IF i \in H THEN "shared" ELSE why[i]]
TmrAbort(H) == [i \in Strategies |-> IF i \in H THEN "cleared" ELSE tmr[i]]
LinkedAbort(H) == [i \in Strategies |-> IF i \in H THEN FALSE ELSE linked[i]]
\* the aborted invocations reject in the order of their listeners
SettledAbort(H) ==
  settleOrder \o SelectSeq([i \in Strategies |-> i], LAMBDA j : j \in H)

SignalledAbort(H) ==
  [i \in Strategies |-> IF i \in H THEN signalled[i] + 1 ELSE signalled[i]]

\* reactions queued in the reverse of the order of the listeners
ThenJobsOfReversed(H) ==
  LET jobs == SelectSeq([i \in Strategies |-> Job("then", i)], LAMBDA j : j.i \in H)
  IN  [k \in 1..Len(jobs) |-> jobs[Len(jobs) + 1 - k]]

\* the reactions of the rejected run promises, in the order of the listeners
ThenJobsOf(H) ==
  SelectSeq([i \in Strategies |-> Job("then", i)], LAMBDA j : j.i \in H)

(***************************************************************************)
(* Promise.race([runner(), overallTimeout]): the first settlement stands,  *)
(* and the await's continuation is queued once.                            *)
(***************************************************************************)
\* a race in which the last settlement stands
RaceWinnerLast(rp, v) == v

RaceWinner(rp, v) == IF rp.kind = "pending" THEN v ELSE rp

\* a race whose settlement queues no continuation
DeliverJobsNever(rp) == <<>>

\* a continuation that runs on every settlement of its inputs
DeliverJobsAlways(rp) == <<Job("deliver", 0)>>

DeliverJobs(rp) == IF rp.kind = "pending" THEN <<Job("deliver", 0)>> ELSE <<>>

\* a promise is settled by the first resolve or reject only
SettleOnce(p, v) == IF p.kind = "pending" THEN v ELSE p

(***************************************************************************)
(* s.run(raceAbort.signal): fetchTextWithTimeout up to its await of fetch. *)
(***************************************************************************)
SharedSignal == IF raceAborted THEN "aborted" ELSE "live"

DoLaunch ==
  /\ mq # <<>>
  /\ Head(mq).k = "launch"
  /\ LET i == Head(mq).i
         T == StrategyTimeoutMs(i, perMs)
     IN  /\ launches' = [launches EXCEPT ![i] = @ + 1]
         /\ sawAborted' = [sawAborted EXCEPT ![i] = raceAborted]
         /\ due' = [due EXCEPT ![i] = now + T]
         /\ IF LinkAbortsNow(SharedSignal)
            THEN /\ st' = [st EXCEPT ![i] = "settled"]
                 /\ out' = [out EXCEPT ![i] = AbortedOut(i)]
                 /\ why' = [why EXCEPT ![i] = "shared"]
                 /\ tmr' = [tmr EXCEPT ![i] = "cleared"]
                 /\ linked' = linked
                 /\ settleOrder' = Append(settleOrder, i)
                 /\ mq' = Append(Tail(mq), Job("then", i))
            ELSE /\ st' = [st EXCEPT ![i] = "inflight"]
                 /\ out' = out
                 /\ why' = why
                 /\ tmr' = [tmr EXCEPT ![i] = "pending"]
                 /\ linked' = [linked EXCEPT ![i] = LinkAttaches(SharedSignal)]
                 /\ settleOrder' = settleOrder
                 /\ mq' = Tail(mq)
  /\ UNCHANGED <<inputVars, extSig, extListeners, dispatching, phase, perMs,
                 overallMs, raceAborted, ovTimer, signalled, recordedAt,
                 runnerVars, overallP, raceP, result, settles, now, earlyCancel>>

(***************************************************************************)
(* The network answers strategy i: fetch resolves or rejects, the          *)
(* invocation returns or throws, and its finally clears its timer and      *)
(* removes its link.                                                       *)
(***************************************************************************)
\* how many fetches one task of the network settles
MaxBatch == 2

\* the adapter found nothing to adapt
NullText == <<"null">>

\* adaptJinaMarkdownToSitemapXml(text, trimmed) ?? text
JinaOutput(text, adapted) == IF adapted = NullText THEN text ELSE adapted

FetchFailures == {HttpMsg}

\* A task of the network can settle several fetches before its microtasks
\* run: at most MaxBatch of them.
NetSettle(i, o) ==
  /\ st[i] = "inflight"
  /\ dispatching = <<>>
  /\ Len(mq) < MaxBatch
  /\ \A k \in 1..Len(mq) : mq[k].k = "then" /\ why[mq[k].i] = ""
  /\ st' = [st EXCEPT ![i] = "settled"]
  /\ out' = [out EXCEPT ![i] = o]
  /\ tmr' = [tmr EXCEPT ![i] = "cleared"]
  /\ linked' = [linked EXCEPT ![i] = FALSE]
  /\ settleOrder' = Append(settleOrder, i)
  /\ mq' = Append(mq, Job("then", i))
  /\ UNCHANGED <<inputVars, extSig, extListeners, dispatching, phase, perMs,
                 overallMs, raceAborted, ovTimer, why, launches, sawAborted,
                 signalled, recordedAt, due, runnerVars, overallP, raceP,
                 result, settles, now, earlyCancel>>

\* return await res.text()
NetText(i) ==
  /\ i # NumStrategies
  /\ \E t \in Texts : NetSettle(i, TextOut(t))

\* return adaptJinaMarkdownToSitemapXml(text, trimmed) ?? text
NetJinaText ==
  \E t \in Texts : \E a \in Texts \cup {NullText} :
    NetSettle(NumStrategies, TextOut(JinaOutput(t, a)))

\* the adapter throws inside the Jina strategy's run
NetJinaThrows == NetSettle(NumStrategies, ErrOut(AdapterMsg))

\* if (!res.ok) throw new Error(`HTTP ${res.status}`), or fetch itself rejects
NetFail(i) ==
  \E m \in FetchFailures :
    NetSettle(i, ErrOut(FetchCatch(m, StrategyTimeoutMs(i, perMs))))


(***************************************************************************)
(* The reactions of the runner's promise chain, one microtask each.        *)
(***************************************************************************)
HeadIs(k) == mq # <<>> /\ Head(mq).k = k

\* a chain without its .catch: the rejection is observed by no handler
DoThenErrorDropped ==
  /\ HeadIs("then")
  /\ LET i == Head(mq).i
     IN  /\ out[i].kind = "err"
         /\ st' = [st EXCEPT ![i] = "thrown"]
         /\ mq' = Tail(mq)
  /\ UNCHANGED <<inputVars, settleOrder, extSig, extListeners, dispatching, phase,
                 perMs, overallMs, raceAborted, ovTimer, out, why, tmr, linked,
                 launches, sawAborted, signalled, recordedAt, due, runnerVars,
                 overallP, raceP, result, settles, now, earlyCancel>>

\* .then((text) => ...) is skipped by a rejected run promise
DoThenError ==
  /\ HeadIs("then")
  /\ LET i == Head(mq).i
     IN  /\ out[i].kind = "err"
         /\ st' = [st EXCEPT ![i] = "thrown"]
         /\ mq' = Append(Tail(mq), Job("catch", i))
  /\ UNCHANGED <<inputVars, settleOrder, extSig, extListeners, dispatching, phase, perMs,
                 overallMs, raceAborted, ovTimer, out, why, tmr, linked,
                 launches, sawAborted, signalled, recordedAt, due, runnerVars,
                 overallP, raceP, result, settles, now, earlyCancel>>

\* a handler without its "if (done) return": a later valid text wins again
DoThenIgnoredWins ==
  /\ HeadIs("then")
  /\ LET i == Head(mq).i
     IN  /\ out[i].kind = "text"
         /\ done
         /\ st' = [st EXCEPT ![i] =
                    IF IsLikelySitemapXml(out[i].text) THEN "won" ELSE "ignored"]
         /\ mq' = Tail(mq)
  /\ UNCHANGED <<inputVars, settleOrder, extSig, extListeners, dispatching, phase, perMs,
                 overallMs, raceAborted, ovTimer, out, why, tmr, linked,
                 launches, sawAborted, signalled, recordedAt, due, runnerVars,
                 overallP, raceP, result, settles, now, earlyCancel>>

\* if (done) return;
DoThenIgnored ==
  /\ HeadIs("then")
  /\ LET i == Head(mq).i
     IN  /\ out[i].kind = "text"
         /\ done
         /\ st' = [st EXCEPT ![i] = "ignored"]
         /\ mq' = Tail(mq)
  /\ UNCHANGED <<inputVars, settleOrder, extSig, extListeners, dispatching, phase, perMs,
                 overallMs, raceAborted, ovTimer, out, why, tmr, linked,
                 launches, sawAborted, signalled, recordedAt, due, runnerVars,
                 overallP, raceP, result, settles, now, earlyCancel>>

\* if (!isLikelySitemapXml(text)) throw new Error("not sitemap XML");
DoThenInvalid ==
  /\ HeadIs("then")
  /\ LET i == Head(mq).i
     IN  /\ out[i].kind = "text"
         /\ ~done
         /\ ~IsLikelySitemapXml(out[i].text)
         /\ st' = [st EXCEPT ![i] = "thrown"]
         /\ out' = [out EXCEPT ![i] = [@ EXCEPT !.kind = "err", !.msg = NotXmlMsg]]
         /\ mq' = Append(Tail(mq), Job("catch", i))
  /\ UNCHANGED <<inputVars, settleOrder, extSig, extListeners, dispatching, phase, perMs,
                 overallMs, raceAborted, ovTimer, why, tmr, linked, launches,
                 sawAborted, signalled, recordedAt, due, runnerVars, overallP,
                 raceP, result, settles, now, earlyCancel>>

\* a winner that resolves without aborting raceAbort
DoThenWinNoAbort ==
  /\ HeadIs("then")
  /\ LET i == Head(mq).i
         v == Resolved(StrategyName(i), out[i].text)
     IN  /\ out[i].kind = "text"
         /\ ~done
         /\ IsLikelySitemapXml(out[i].text)
         /\ done' = TRUE
         /\ st' = [st EXCEPT ![i] = "won"]
         /\ runnerP' = SettleOnce(runnerP, v)
         /\ raceP' = RaceWinner(raceP, v)
         /\ mq' = Tail(mq) \o DeliverJobs(raceP)
  /\ UNCHANGED <<inputVars, settleOrder, extSig, extListeners, dispatching, phase, perMs,
                 overallMs, raceAborted, ovTimer, out, why, tmr, linked,
                 launches, sawAborted, signalled, recordedAt, due, errors,
                 completed, overallP, result, settles, now, earlyCancel>>

\* done = true; raceAbort.abort(); resolve({ name: s.name, text });
DoThenWin ==
  /\ HeadIs("then")
  /\ LET i == Head(mq).i
         H == AbortHit
         v == Resolved(StrategyName(i), out[i].text)
     IN  /\ out[i].kind = "text"
         /\ ~done
         /\ IsLikelySitemapXml(out[i].text)
         /\ done' = TRUE
         /\ raceAborted' = TRUE
         /\ st' = [StAbort(H) EXCEPT ![i] = "won"]
         /\ out' = OutAbort(H)
         /\ why' = WhyAbort(H)
         /\ tmr' = TmrAbort(H)
         /\ linked' = LinkedAbort(H)
         /\ signalled' = SignalledAbort(H)
         /\ settleOrder' = SettledAbort(H)
         /\ runnerP' = SettleOnce(runnerP, v)
         /\ raceP' = RaceWinner(raceP, v)
         /\ mq' = Tail(mq) \o ThenJobsOf(H) \o DeliverJobs(raceP)
  /\ UNCHANGED <<inputVars, extSig, extListeners, dispatching, phase, perMs,
                 overallMs, ovTimer, launches, sawAborted, recordedAt, due,
                 errors, completed, overallP, result, settles, now, earlyCancel>>

\* a runner that gives up at the first failure
AllFailedEarly(d, c) == ~d /\ c >= 1

\* a counter compared one too high
AllFailedOffByOne(d, c) == ~d /\ c > NumStrategies

\* a check that rejects while one strategy is still outstanding
AllFailedAtThree(d, c) == ~d /\ c >= NumStrategies - 1

\* if (!done && completed >= strategies.length) reject(...)
AllFailed(d, c) == ~d /\ c >= NumStrategies

\* a .catch that counts the failure without pushing its reason
DoCatchNoRecord ==
  /\ HeadIs("catch")
  /\ LET i == Head(mq).i
         v == AllFailedError(errors)
     IN  /\ errors' = errors
         /\ completed' = completed + 1
         /\ st' = [st EXCEPT ![i] = "recorded"]
         /\ recordedAt' = [recordedAt EXCEPT ![i] = now]
         /\ IF AllFailed(done, completed + 1)
            THEN /\ runnerP' = SettleOnce(runnerP, v)
                 /\ raceP' = RaceWinner(raceP, v)
                 /\ mq' = Tail(mq) \o DeliverJobs(raceP)
            ELSE /\ runnerP' = runnerP
                 /\ raceP' = raceP
                 /\ mq' = Tail(mq)
  /\ UNCHANGED <<inputVars, settleOrder, extSig, extListeners, dispatching, phase,
                 perMs, overallMs, raceAborted, ovTimer, out, why, tmr, linked,
                 launches, sawAborted, signalled, due, done, overallP, result,
                 settles, now, earlyCancel>>

\* .catch((e) => { errors.push(...); completed += 1; finishRejectIfAllFailed(); })
DoCatch ==
  /\ HeadIs("catch")
  /\ LET i == Head(mq).i
         errs == Append(errors, <<StrategyName(i), out[i].msg>>)
         v == AllFailedError(errs)
     IN  /\ errors' = errs
         /\ completed' = completed + 1
         /\ st' = [st EXCEPT ![i] = "recorded"]
         /\ recordedAt' = [recordedAt EXCEPT ![i] = now]
         /\ IF AllFailed(done, completed + 1)
            THEN /\ runnerP' = SettleOnce(runnerP, v)
                 /\ raceP' = RaceWinner(raceP, v)
                 /\ mq' = Tail(mq) \o DeliverJobs(raceP)
            ELSE /\ runnerP' = runnerP
                 /\ raceP' = raceP
                 /\ mq' = Tail(mq)
  /\ UNCHANGED <<inputVars, settleOrder, extSig, extListeners, dispatching, phase, perMs,
                 overallMs, raceAborted, ovTimer, out, why, tmr, linked,
                 launches, sawAborted, signalled, due, done, overallP, result,
                 settles, now, earlyCancel>>

\* return result.text, or the rejection of the race rethrown by the await
Returned(rp) == [rp EXCEPT !.name = ""]

\* a continuation without its finally: the link stays on the caller's signal
DoDeliverKeepsLink ==
  /\ HeadIs("deliver")
  /\ result' = Returned(raceP)
  /\ settles' = settles + 1
  /\ phase' = "settled"
  /\ mq' = Tail(mq)
  /\ UNCHANGED <<inputVars, extSig, extListeners, dispatching, perMs, overallMs,
                 raceAborted, ovTimer, stratVars, runnerVars, overallP, raceP,
                 now, earlyCancel>>

\* the continuation of the await: try { ... return result.text } finally { unlinkExternal() }
DoDeliver ==
  /\ HeadIs("deliver")
  /\ result' = Returned(raceP)
  /\ settles' = settles + 1
  /\ phase' = "settled"
  /\ extListeners' = SelectSeq(extListeners, LAMBDA l : l # "link")
  /\ mq' = Tail(mq)
  /\ UNCHANGED <<inputVars, extSig, dispatching, perMs, overallMs, raceAborted,
                 ovTimer, stratVars, runnerVars, overallP, raceP, now, earlyCancel>>

(***************************************************************************)
(* Timer callbacks are tasks: they run when the microtask queue is empty,  *)
(* in the order of their deadlines, and for equal deadlines in the order   *)
(* in which the timers were set (the overall timer is set first).          *)
(***************************************************************************)
TaskMayRun == mq = <<>> /\ dispatching = <<>>

\* a timer callback that aborts raceAbort instead of the invocation's controller
FireStrategyTimerAbortsShared(i) ==
  /\ TaskMayRun
  /\ tmr[i] = "pending"
  /\ ovTimer = "pending" => overallMs > due[i]
  /\ \A j \in Strategies \ {i} :
       tmr[j] = "pending" => (due[j] > due[i] \/ (due[j] = due[i] /\ j > i))
  /\ LET H == AbortHit
     IN  /\ now' = due[i]
         /\ raceAborted' = TRUE
         /\ st' = StAbort(H)
         /\ out' = OutAbort(H)
         /\ why' = [WhyAbort(H) EXCEPT ![i] = "own"]
         /\ tmr' = [TmrAbort(H) EXCEPT ![i] = "fired"]
         /\ linked' = LinkedAbort(H)
         /\ signalled' = SignalledAbort(H)
         /\ settleOrder' = SettledAbort(H)
         /\ mq' = ThenJobsOf(H)
  /\ UNCHANGED <<inputVars, extSig, extListeners, dispatching, phase, perMs,
                 overallMs, ovTimer, launches, sawAborted, recordedAt, due,
                 runnerVars, overallP, raceP, result, settles, earlyCancel>>

\* a strategy's timer that fires ahead of the overall timer due at the same time
FireStrategyTimerTieFirst(i) ==
  /\ TaskMayRun
  /\ tmr[i] = "pending"
  /\ ovTimer = "pending" => overallMs >= due[i]
  /\ \A j \in Strategies \ {i} :
       tmr[j] = "pending" => (due[j] > due[i] \/ (due[j] = due[i] /\ j > i))
  /\ now' = due[i]
  /\ st' = [st EXCEPT ![i] = "settled"]
  /\ out' = [out EXCEPT ![i] = AbortedOut(i)]
  /\ why' = [why EXCEPT ![i] = "own"]
  /\ tmr' = [tmr EXCEPT ![i] = "fired"]
  /\ linked' = [linked EXCEPT ![i] = FALSE]
  /\ settleOrder' = Append(settleOrder, i)
  /\ mq' = <<Job("then", i)>>
  /\ UNCHANGED <<inputVars, extSig, extListeners, dispatching, phase, perMs,
                 overallMs, raceAborted, ovTimer, launches, sawAborted,
                 signalled, recordedAt, due, runnerVars, overallP, raceP,
                 result, settles, earlyCancel>>

\* window.setTimeout(() => controller.abort(), timeoutMs) of strategy i
FireStrategyTimer(i) ==
  /\ TaskMayRun
  /\ tmr[i] = "pending"
  /\ ovTimer = "pending" => overallMs > due[i]
  /\ \A j \in Strategies \ {i} :
       tmr[j] = "pending" => (due[j] > due[i] \/ (due[j] = due[i] /\ j > i))
  /\ now' = due[i]
  /\ st' = [st EXCEPT ![i] = "settled"]
  /\ out' = [out EXCEPT ![i] = AbortedOut(i)]
  /\ why' = [why EXCEPT ![i] = "own"]
  /\ tmr' = [tmr EXCEPT ![i] = "fired"]
  /\ linked' = [linked EXCEPT ![i] = FALSE]
  /\ settleOrder' = Append(settleOrder, i)
  /\ mq' = <<Job("then", i)>>
  /\ UNCHANGED <<inputVars, extSig, extListeners, dispatching, phase, perMs,
                 overallMs, raceAborted, ovTimer, launches, sawAborted,
                 signalled, recordedAt, due, runnerVars, overallP, raceP,
                 result, settles, earlyCancel>>

\* the overall timer's callback: raceAbort.abort(); reject(new Error(`All strategies timed out ...`))
FireOverallTimer ==
  /\ TaskMayRun
  /\ ovTimer = "pending"
  /\ \A j \in Strategies : tmr[j] = "pending" => due[j] >= overallMs
  /\ LET H == AbortHit
         v == OverallTimeoutError(overallMs)
     IN  /\ now' = overallMs
         /\ ovTimer' = "fired"
         /\ raceAborted' = TRUE
         /\ st' = StAbort(H)
         /\ out' = OutAbort(H)
         /\ why' = WhyAbort(H)
         /\ tmr' = TmrAbort(H)
         /\ linked' = LinkedAbort(H)
         /\ signalled' = SignalledAbort(H)
         /\ settleOrder' = SettledAbort(H)
         /\ overallP' = SettleOnce(overallP, v)
         /\ raceP' = RaceWinner(raceP, v)
         /\ mq' = ThenJobsOf(H) \o DeliverJobs(raceP)
  /\ UNCHANGED <<inputVars, extSig, extListeners, dispatching, phase, perMs,
                 overallMs, launches, sawAborted, recordedAt, due, runnerVars,
                 result, settles, earlyCancel>>


(***************************************************************************)
(* The caller's signal aborts.  Its abort event calls the race's listeners *)
(* in registration order: the link of linkAbortSignals ("link"), then the  *)
(* listener of the overallTimeout promise ("cancel").  When a script       *)
(* aborts the signal (AbortController.abort()), both listeners run before  *)
(* any microtask.  When the user agent aborts it from a task of its own    *)
(* (AbortSignal.timeout()), no script is on the stack between the two      *)
(* listeners, so the microtask queue is drained after each of them.        *)
(* A script runs in a task of its own, or in a microtask of the tick in    *)
(* which the race was started.                                             *)
(***************************************************************************)
Has(l) == \E k \in 1..Len(extListeners) : extListeners[k] = l

\* the race is started, no strategy has settled, and the race is undecided
NoneSettled ==
  /\ phase = "running"
  /\ \A i \in Strategies : st[i] \in {"idle", "inflight"}
  /\ raceP.kind = "pending"

\* window.clearTimeout(id)
ClearedTimer(t) == IF t = "pending" THEN "cleared" ELSE t

\* the hit set of the link's to.abort(), if the link is still attached
LinkHit == IF Has("link") THEN AbortHit ELSE {}

ExternalAbortFromScript ==
  /\ extSig = "live"
  /\ phase # "init"
  /\ dispatching = <<>>
  /\ (IF mq = <<>> THEN TRUE ELSE Head(mq).k = "launch")
  /\ LET H == LinkHit
     IN  /\ extSig' = "aborted"
         /\ extListeners' = <<>>
         /\ raceAborted' = (raceAborted \/ Has("link"))
         /\ st' = StAbort(H)
         /\ out' = OutAbort(H)
         /\ why' = WhyAbort(H)
         /\ tmr' = TmrAbort(H)
         /\ linked' = LinkedAbort(H)
         /\ signalled' = SignalledAbort(H)
         /\ settleOrder' = SettledAbort(H)
         /\ IF Has("cancel")
            THEN /\ ovTimer' = ClearedTimer(ovTimer)
                 /\ overallP' = SettleOnce(overallP, CancelledError)
                 /\ raceP' = RaceWinner(raceP, CancelledError)
                 /\ mq' = mq \o ThenJobsOf(H) \o DeliverJobs(raceP)
            ELSE /\ UNCHANGED <<ovTimer, overallP, raceP>>
                 /\ mq' = mq \o ThenJobsOf(H)
  /\ earlyCancel' = NoneSettled
  /\ UNCHANGED <<inputVars, dispatching, phase, perMs, overallMs, launches,
                 sawAborted, recordedAt, due, runnerVars, result, settles, now>>

\* the first listener of an abort dispatched by the user agent: () => to.abort()
ExternalAbortFromTask ==
  /\ extSig = "live"
  /\ phase # "init"
  /\ TaskMayRun
  /\ Has("link")
  /\ LET H == AbortHit
     IN  /\ extSig' = "aborted"
         /\ extListeners' = <<>>
         /\ dispatching' = <<"cancel">>
         /\ raceAborted' = TRUE
         /\ st' = StAbort(H)
         /\ out' = OutAbort(H)
         /\ why' = WhyAbort(H)
         /\ tmr' = TmrAbort(H)
         /\ linked' = LinkedAbort(H)
         /\ signalled' = SignalledAbort(H)
         /\ settleOrder' = SettledAbort(H)
         /\ mq' = ThenJobsOf(H)
  /\ earlyCancel' = NoneSettled
  /\ UNCHANGED <<inputVars, phase, perMs, overallMs, ovTimer, launches,
                 sawAborted, recordedAt, due, runnerVars, overallP, raceP,
                 result, settles, now>>

\* the second listener of that dispatch: window.clearTimeout(id); reject(new Error("Cancelled"))
DispatchCancel ==
  /\ dispatching # <<>>
  /\ mq = <<>>
  /\ dispatching' = Tail(dispatching)
  /\ ovTimer' = ClearedTimer(ovTimer)
  /\ overallP' = SettleOnce(overallP, CancelledError)
  /\ raceP' = RaceWinner(raceP, CancelledError)
  /\ mq' = DeliverJobs(raceP)
  /\ UNCHANGED <<inputVars, extSig, extListeners, phase, perMs, overallMs,
                 raceAborted, stratVars, runnerVars, result, settles, now, earlyCancel>>

(***************************************************************************)
(* The specification.                                                      *)
(***************************************************************************)
Microtask ==
  \/ DoLaunch
  \/ DoThenError
  \/ DoThenIgnored
  \/ DoThenInvalid
  \/ DoThenWin
  \/ DoCatch
  \/ DoDeliver

Timers ==
  \/ FireOverallTimer
  \/ \E i \in Strategies : FireStrategyTimer(i)

Network ==
  \/ \E i \in Strategies : NetText(i)
  \/ NetJinaText
  \/ NetJinaThrows
  \/ \E i \in Strategies : NetFail(i)

Next ==
  \/ StartEmpty
  \/ Start
  \/ Microtask
  \/ Timers
  \/ Network
  \/ ExternalAbortFromScript
  \/ ExternalAbortFromTask
  \/ DispatchCancel

Spec == Init /\ [][Next]_vars

\* the event loop runs queued microtasks, continues a dispatch, and fires due timers
FairSpec ==
  /\ Spec
  /\ WF_vars(Start \/ StartEmpty)
  /\ WF_vars(Microtask)
  /\ WF_vars(DispatchCancel)
  /\ WF_vars(Timers)


(***************************************************************************)
(* The clamping of the two configured timeouts, on its own: every pair of  *)
(* ClampValues is handed to lines 58-59.                                   *)
(***************************************************************************)
\* values of config.perStrategyTimeoutMs and config.overallTimeoutMs
ClampValues ==
  {Undef, 0, 1, 3999, 4000, 4001, 11999, 12000, 12001, 14999, 15000, 15001, 30000}

ClampInit ==
  /\ targetUrl = <<"u">>
  /\ perCfg \in ClampValues
  /\ overallCfg \in ClampValues
  /\ signalCfg = "none"
  /\ extSig = signalCfg
  /\ extListeners = <<>>
  /\ dispatching = <<>>
  /\ phase = "init"
  /\ perMs = 0
  /\ overallMs = 0
  /\ raceAborted = FALSE
  /\ ovTimer = "none"
  /\ st = [i \in Strategies |-> "idle"]
  /\ out = [i \in Strategies |-> NoOut]
  /\ why = [i \in Strategies |-> ""]
  /\ tmr = [i \in Strategies |-> "none"]
  /\ linked = [i \in Strategies |-> FALSE]
  /\ launches = [i \in Strategies |-> 0]
  /\ sawAborted = [i \in Strategies |-> FALSE]
  /\ signalled = [i \in Strategies |-> 0]
  /\ recordedAt = [i \in Strategies |-> 0]
  /\ due = [i \in Strategies |-> 0]
  /\ settleOrder = <<>>
  /\ errors = <<>>
  /\ completed = 0
  /\ done = FALSE
  /\ runnerP = Pending
  /\ overallP = Pending
  /\ raceP = Pending
  /\ result = Pending
  /\ settles = 0
  /\ mq = <<>>
  /\ now = 0
  /\ earlyCancel = FALSE

\* const perStrategyTimeoutMs = Math.max(4000, ...); const overallTimeoutMs = Math.max(...)
Clamp ==
  /\ phase = "init"
  /\ Trim(targetUrl) # <<>>
  /\ phase' = "clamped"
  /\ perMs' = PerStrategyTimeoutMs(perCfg)
  /\ overallMs' = OverallTimeoutMs(perMs', overallCfg)
  /\ UNCHANGED <<inputVars, extSig, extListeners, dispatching, raceAborted,
                 ovTimer, stratVars, runnerVars, overallP, raceP, result,
                 settles, mq, now, earlyCancel>>

ClampSpec == ClampInit /\ [][Clamp]_vars

(***************************************************************************)
(* Properties.                                                             *)
(***************************************************************************)
\* the texts of Texts that hold a urlset or sitemapindex root element
SitemapTexts == {XmlA, XmlB}

Winners == {i \in Strategies : st[i] = "won"}

\* C1: whenever the race resolves, the returned text is the text one of the
\* strategies settled with, that strategy is the declared winner, and the text
\* holds a sitemap root element; a text that fails the gate never wins.
C1_ResolvedTextPassedGate ==
  /\ \A i \in Winners : out[i].kind = "text" /\ out[i].text \in SitemapTexts
  /\ raceP.kind = "resolved" =>
       \E i \in Winners : raceP = Resolved(StrategyName(i), out[i].text)
  /\ result.kind = "resolved" =>
       /\ result.text \in SitemapTexts
       /\ \E i \in Winners : result.text = out[i].text

\* a race resolved after another strategy's text had failed the gate
C1_Witness ==
  /\ result.kind = "resolved"
  /\ \E j \in Strategies : st[j] = "recorded" /\ out[j].msg = NotXmlMsg

\* C2: at most one strategy is ever the winner; a valid text whose reaction
\* runs while done is unset becomes the winner, whatever its place in the list;
\* one whose reaction runs once done is set is dropped and changes neither the
\* winner nor the runner's and the race's promises.
C2_Step ==
  /\ Cardinality({i \in Strategies : st'[i] = "won"}) <= 1
  /\ \A i \in Strategies : st[i] = "won" => st'[i] = "won" /\ runnerP' = runnerP
  /\ done => done'
  /\ \A i \in Strategies :
       (st[i] = "settled" /\ st'[i] # "settled" /\ out[i].kind = "text"
          /\ out[i].text \in SitemapTexts)
       => IF done
          THEN st'[i] = "ignored" /\ runnerP' = runnerP /\ raceP' = raceP
          ELSE st'[i] = "won" /\ runnerP' = Resolved(StrategyName(i), out[i].text)

C2_SingleWinner == [][C2_Step]_vars

\* a strategy later in the list won, and a valid text of an earlier one, queued
\* behind it, was dropped
C2_Witness ==
  \E i, j \in Strategies :
    /\ j < i
    /\ st[i] = "won"
    /\ st[j] = "ignored"
    /\ out[j].text \in SitemapTexts


\* the messages of the Errors the race rejects with
ErrorCauses ==
  {"URL is required", "All strategies failed", "All strategies timed out after",
   "Cancelled"}

\* C3: the returned promise is settled once: with the winner's text or with an
\* Error, and nothing that happens afterwards (a late settlement, the overall
\* timer, an abort of the caller's signal) changes what was delivered.
C3_Step ==
  /\ settles' <= 1
  /\ result.kind # "pending" => result' = result /\ settles' = settles
  /\ result'.kind # "pending" =>
       /\ settles' = 1
       /\ \/ /\ result'.kind = "resolved"
             /\ result'.text \in Texts
             /\ \E i \in Strategies : st'[i] = "won" /\ out'[i].text = result'.text
          \/ /\ result'.kind = "rejected"
             /\ result'.cause \in ErrorCauses

C3_SettlesOnce == [][C3_Step]_vars

\* a resolved race that later saw a dropped settlement, its overall timer fire
\* and the caller abort
C3_Witness ==
  /\ result.kind = "resolved"
  /\ ovTimer = "fired"
  /\ signalCfg = "live"
  /\ extSig = "aborted"
  /\ \E i \in Strategies : st[i] = "ignored"

\* C4: a started race settles, and until it is decided its overall timer is
\* pending, so that the timer's callback decides it at the latest.
C4_EventuallySettles ==
  /\ (phase = "running") ~> (phase = "settled")
  /\ [](phase = "running" /\ raceP.kind = "pending" => ovTimer = "pending")

\* a race that only the overall timer decided, while a strategy had not timed out
C4_Witness ==
  /\ phase = "settled"
  /\ result.cause = "All strategies timed out after"
  /\ \E i \in Strategies : why[i] = "shared" /\ due[i] > overallMs


\* the reaction of strategy i's run promise has run
Processed(i) == st[i] \in {"thrown", "recorded", "won", "ignored"}

\* C5: once a strategy has come back with a text that holds a sitemap root, and
\* the caller's signal is not aborted, the race is resolved with the text of the
\* winner (this strategy, or a valid one processed before it), and it was
\* resolved while the overall timer was still pending.
C5_ValidTextResolves ==
  (/\ extSig # "aborted"
   /\ \E i \in Strategies : Processed(i) /\ out[i].text \in SitemapTexts)
  => /\ raceP.kind = "resolved"
     /\ \E w \in Winners : raceP = Resolved(StrategyName(w), out[w].text)
     /\ result.kind # "pending" => result = Returned(raceP)
     /\ result.kind = "pending" => ovTimer = "pending"

\* the only valid text came from the last strategy, after the three others failed
C5_Witness ==
  /\ result.kind = "resolved"
  /\ st[NumStrategies] = "won"
  /\ \A i \in Strategies \ {NumStrategies} : st[i] = "recorded"

\* the texts of Texts that hold no sitemap root
OtherTexts == Texts \ SitemapTexts

\* C6: when every strategy came back with a text that fails the gate, the race
\* rejects with "All strategies failed: ..." and the message names every strategy.
C6_AllInvalidRejects ==
  (\A i \in Strategies :
      st[i] = "recorded" /\ out[i].text \in OtherTexts /\ out[i].msg = NotXmlMsg)
  => /\ raceP = AllFailedError(errors)
     /\ \A i \in Strategies :
          \E k \in 1..Len(raceP.entries) : raceP.entries[k][1] = StrategyName(i)
     /\ result.kind # "pending" => result = raceP

\* the caller holds the rejection of a race whose four texts all failed the gate
C6_Witness ==
  /\ \A i \in Strategies : st[i] = "recorded" /\ out[i].msg = NotXmlMsg
  /\ result.cause = "All strategies failed"

\* C7: a caller's abort that fires on a started race before any strategy has
\* settled makes the race reject with "Cancelled".
C7_EarlyCancelRejectsCancelled ==
  (earlyCancel /\ result.kind # "pending") => result = CancelledError

\* C8: a race called with an already aborted signal rejects with "Cancelled".
C8_PreAbortedRejectsCancelled ==
  (signalCfg = "aborted" /\ result.kind # "pending" /\ Trim(targetUrl) # <<>>)
  => result = CancelledError

\* C9: when the signal is already aborted at link time, raceAbort is aborted
\* before any run is called: every run sees an aborted shared signal.
C9_PreAbortedSeenByEveryRun ==
  (signalCfg = "aborted" /\ phase # "init" /\ Trim(targetUrl) # <<>>)
  => /\ raceAborted
     /\ \A i \in Strategies :
          /\ launches[i] > 0 => sawAborted[i]
          /\ st[i] # "inflight"

\* every strategy was launched under the aborted signal of the caller
C9_Witness ==
  /\ signalCfg = "aborted"
  /\ \A i \in Strategies : launches[i] = 1 /\ sawAborted[i]

\* C10: in the step that declares a winner, raceAbort is aborted and every
\* other strategy in flight is signalled: no state has done set, or the race
\* resolved, with raceAbort unaborted or a strategy still in flight.
C10_WinAbortsSiblings ==
  (done \/ raceP.kind = "resolved")
  => /\ raceAborted
     /\ \A i \in Strategies : st[i] # "inflight" /\ ~linked[i] /\ tmr[i] # "pending"

\* a winner was declared while siblings were in flight, and each was signalled once
C10_Witness ==
  /\ done
  /\ result.kind = "pending"
  /\ Cardinality({i \in Strategies : why[i] = "shared" /\ signalled[i] = 1}) >= 2

\* the time at which run was called for strategy i
LaunchedAt(i) == due[i] - StrategyTimeoutMs(i, perMs)

\* strategy i's fetch never answered: an abort ended its invocation
NeverAnswered(i) == why[i] # ""

\* C11: with a configured per-strategy timeout T and a later overall deadline,
\* a strategy whose fetch never answers is recorded with a timeout reason at or
\* after T and strictly before the overall deadline (no winner, no caller's abort).
C11_TimeoutRecordedInWindow ==
  (perCfg # Undef /\ overallMs > perMs /\ extSig # "aborted" /\ ~done)
  => \A i \in Strategies :
       (st[i] = "recorded" /\ NeverAnswered(i))
       => /\ out[i].msg.m = "timeout after"
          /\ recordedAt[i] >= LaunchedAt(i) + perMs
          /\ recordedAt[i] < overallMs

\* C12: no strategy is still in flight later than the effective per-strategy
\* timeout after its launch.
C12_PerStrategyBoundsRun ==
  \A i \in Strategies : st[i] = "inflight" => now <= LaunchedAt(i) + perMs

\* the reason recorded for strategy i when an abort ended its invocation
TimeoutEntry(i) == <<StrategyName(i), TimeoutMsg(StrategyTimeoutMs(i, perMs))>>

\* every strategy ran into its own timeout
AllTimedOut(w) == \A i \in Strategies : w[i] = "own"

\* C13: when every strategy runs into its own timeout before the overall
\* deadline, the step that records the last timeout failure rejects the race
\* with "All strategies failed" and one timeout reason per strategy, while the
\* overall timer is still pending.
C13_Step ==
  (/\ AllTimedOut(why')
   /\ \E i \in Strategies : st[i] # "recorded" /\ st'[i] = "recorded"
   /\ \A i \in Strategies : st'[i] = "recorded")
  => /\ raceP.kind = "pending"
     /\ raceP' = AllFailedError(errors')
     /\ Len(errors') = NumStrategies
     /\ \A i \in Strategies :
          \E k \in 1..Len(errors') : errors'[k] = TimeoutEntry(i)
     /\ ovTimer' = "pending"
     /\ now' < overallMs

C13_AllTimedOutRejectsAtLast == [][C13_Step]_vars

\* the caller holds the all-failed rejection of four timeouts, the overall
\* timer still pending
C13_Witness ==
  /\ AllTimedOut(why)
  /\ result = AllFailedError(errors)
  /\ Len(errors) = NumStrategies
  /\ ovTimer = "pending"
  /\ now < overallMs

\* strategy i goes from s to t by failing: its fetch or its run rejects, its
\* text fails the gate, or its reason is recorded
FailureStep(i) ==
  \/ /\ st[i] = "inflight"
     /\ st'[i] = "settled"
     /\ out'[i].kind = "err"
     /\ why'[i] # "shared"
  \/ st[i] = "settled" /\ st'[i] = "thrown"
  \/ st[i] = "thrown" /\ st'[i] = "recorded"

\* C14: a rejection or an invalid text of one strategy is only recorded: the
\* step leaves raceAbort, the done flag and every other strategy alone, and it
\* settles the race only when it records the last outstanding strategy; a valid
\* text processed after such failures still wins.
C14_Step ==
  /\ \A i \in Strategies :
       FailureStep(i)
       => /\ raceAborted' = raceAborted
          /\ done' = done
          /\ \A j \in Strategies \ {i} :
               /\ st'[j] = st[j]
               /\ out'[j] = out[j]
               /\ linked'[j] = linked[j]
               /\ signalled'[j] = signalled[j]
          /\ completed' < NumStrategies => (runnerP' = runnerP /\ raceP' = raceP)
          /\ (\E j \in Strategies \ {i} : st'[j] \in {"idle", "inflight"})
               => (runnerP' = runnerP /\ raceP' = raceP)
  /\ \A i \in Strategies :
       (/\ errors # <<>>
        /\ ~done
        /\ st[i] = "settled"
        /\ st'[i] # "settled"
        /\ out[i].kind = "text"
        /\ out[i].text \in SitemapTexts)
       => /\ st'[i] = "won"
          /\ runnerP' = Resolved(StrategyName(i), out[i].text)
          /\ raceP.kind = "pending" => raceP' = runnerP'

C14_FailureOnlyRecorded == [][C14_Step]_vars

\* API rejected with an HTTP error, Direct's text failed the gate, and
\* AllOrigins, answering after both were recorded, won the race
C14_Witness ==
  /\ errors = <<<<StrategyName(1), HttpMsg>>, <<StrategyName(2), NotXmlMsg>>>>
  /\ st[3] = "won"
  /\ result = Returned(Resolved(StrategyName(3), out[3].text))

\* the target holds nothing but white space
BlankTarget == \A k \in 1..Len(targetUrl) : targetUrl[k] = "sp"

\* C15: a call with an empty or blank target rejects at once with "URL is
\* required": no strategy is launched, no timer is set and no listener is put
\* on the caller's signal.
C15_BlankTargetFailsFast ==
  (BlankTarget /\ phase # "init")
  => /\ result = ConfigError
     /\ settles = 1
     /\ phase = "settled"
     /\ \A i \in Strategies :
          launches[i] = 0 /\ st[i] = "idle" /\ tmr[i] = "none" /\ ~linked[i]
     /\ ovTimer = "none"
     /\ extListeners = <<>>
     /\ mq = <<>>
     /\ runnerP = Pending /\ overallP = Pending /\ raceP = Pending

\* a blank target was rejected, and the caller's signal aborted afterwards
C15_Witness ==
  /\ targetUrl = <<"sp">>
  /\ result = ConfigError
  /\ signalCfg = "live"
  /\ extSig = "aborted"

\* C16: whatever the configuration (a value left out, a value below the
\* floor), the effective per-strategy timeout is at least 4000 ms and the
\* effective overall timeout is at least the effective per-strategy timeout.
C16_TimeoutsClamped ==
  phase = "clamped" => (perMs >= MinPerStrategyMs /\ overallMs >= perMs)

\* a per-strategy timeout below the floor was raised to it, and an overall
\* timeout below that was raised to the per-strategy timeout
C16_Witness ==
  /\ phase = "clamped"
  /\ perCfg # Undef /\ perCfg < MinPerStrategyMs
  /\ overallCfg # Undef /\ overallCfg < perCfg
  /\ perMs = MinPerStrategyMs
  /\ overallMs = perMs

\* C17: the step in which strategy i's own timer fires aborts that invocation
\* only: raceAbort stays as it was and no other strategy changes.
C17_Step ==
  \A i \in Strategies :
    (tmr[i] = "pending" /\ tmr'[i] = "fired")
    => /\ raceAborted' = raceAborted
       /\ st'[i] = "settled" /\ why'[i] = "own"
       /\ \A j \in Strategies \ {i} :
            /\ st'[j] = st[j]
            /\ out'[j] = out[j]
            /\ why'[j] = why[j]
            /\ tmr'[j] = tmr[j]
            /\ linked'[j] = linked[j]
            /\ signalled'[j] = signalled[j]

C17_OwnTimeoutIsPrivate == [][C17_Step]_vars

\* a strategy ran into its own timeout and a sibling, never signalled, won later
C17_Witness ==
  \E i, j \in Strategies :
    /\ why[i] = "own"
    /\ st[i] = "recorded"
    /\ st[j] = "won"
    /\ signalled[j] = 0
    /\ recordedAt[i] > 0

\* C18: a strategy ended by an abort of the shared signal is recorded with a
\* reason other than the one its own timeout gives ("timeout after Ns").
C18_SharedAbortDistinct ==
  \A i \in Strategies :
    (why[i] = "shared" /\ st[i] = "recorded")
    => \E k \in 1..Len(errors) :
         errors[k][1] = StrategyName(i) /\ errors[k] # TimeoutEntry(i)

\* C19: once the call has settled, its overall timer is not pending.
C19_OverallTimerCleared ==
  phase = "settled" => ovTimer # "pending"

\* C20: once an invocation has settled, by a text, a failure, its own timeout
\* or an abort of the shared signal, its timer is not pending and its listener
\* is off raceAbort.signal.
C20_StrategyTimerCleared ==
  \A i \in Strategies :
    st[i] \notin {"idle", "inflight"} => (tmr[i] \in {"cleared", "fired"} /\ ~linked[i])

\* the four invocations settled in four ways: a text, an HTTP failure, its own
\* timeout, an abort of the shared signal
C20_Witness ==
  \E i, j, k, l \in Strategies :
    /\ st[i] = "won"
    /\ out[j].msg = HttpMsg
    /\ why[k] = "own"
    /\ why[l] = "shared" /\ signalled[l] = 1

\* the strategies whose reason was recorded before the race was decided by the
\* overall timer or by the caller's abort: those an abort of raceAbort did not end
RecordedBeforeAbort == {i \in Strategies : st[i] = "recorded" /\ why[i] # "shared"}

\* C21: whatever makes the race fail (all failed, the overall timeout, the
\* caller's abort), the Error handed to the caller carries the reason of every
\* strategy recorded by then.
C21_FailureCarriesReasons ==
  (result.kind = "rejected" /\ result.cause # "URL is required")
  => \A i \in RecordedBeforeAbort :
       \E k \in 1..Len(result.entries) : result.entries[k][1] = StrategyName(i)

\* the entry `${s.name}: ${msg}` of strategy i
EntryOf(i) == <<StrategyName(i), out[i].msg>>

\* C22: the all-failed Error lists exactly one entry "name: reason" per
\* strategy, in the order in which the strategies settled, whatever their
\* order in the list of strategies.
C22_AllFailedInSettleOrder ==
  /\ runnerP.kind = "rejected" =>
       /\ runnerP.cause = "All strategies failed"
       /\ Len(runnerP.entries) = NumStrategies
       /\ Len(settleOrder) = NumStrategies
       /\ \A i \in Strategies : \E k \in 1..NumStrategies : settleOrder[k] = i
       /\ \A k \in 1..NumStrategies : runnerP.entries[k] = EntryOf(settleOrder[k])
  /\ result.cause = "All strategies failed" => result = runnerP

\* the caller holds an all-failed Error whose entries start with the last
\* strategy of the list
C22_Witness ==
  /\ result.cause = "All strategies failed"
  /\ result.entries[1][1] = StrategyName(NumStrategies)
  /\ result.entries[NumStrategies][1] = StrategyName(1)

\* C23: when the overall timer fires with no winner declared and a strategy
\* still outstanding, raceAbort is aborted, every invocation in flight is
\* signalled, and the race rejects with "All strategies timed out after Ns";
\* a later all-failed rejection of the runner does not replace it.
C23_Step ==
  /\ (ovTimer = "pending" /\ ovTimer' = "fired" /\ ~done /\ completed < NumStrategies)
     => /\ raceAborted'
        /\ \A i \in Strategies :
             /\ st'[i] # "inflight"
             /\ ~linked'[i]
             /\ st[i] = "inflight" =>
                  (signalled'[i] = signalled[i] + 1 /\ why'[i] = "shared")
        /\ overallP' = OverallTimeoutError(overallMs)
        /\ raceP' = OverallTimeoutError(overallMs)
  /\ raceP = OverallTimeoutError(overallMs) => raceP' = raceP
  /\ result = OverallTimeoutError(overallMs) => result' = result

C23_OverallTimeoutRejects == [][C23_Step]_vars

\* the overall timer decided a race in which one strategy had failed before
\* and another was in flight and was signalled
C23_Witness ==
  /\ result = OverallTimeoutError(overallMs)
  /\ \E i \in Strategies : why[i] = "shared" /\ signalled[i] = 1
  /\ \E j \in Strategies : st[j] = "recorded" /\ why[j] = ""

\* the reaction of every settled run promise is queued: its .then while the
\* promise is settled, its .catch once the rejection has passed the .then
HandlerQueued(s, m) ==
  \A i \in Strategies :
    /\ s[i] = "settled" =>
         Cardinality({k \in 1..Len(m) : m[k] = Job("then", i)}) = 1
    /\ s[i] = "thrown" =>
         Cardinality({k \in 1..Len(m) : m[k] = Job("catch", i)}) = 1

\* C24: every rejection has a handler: a rejected run promise has its
\* reaction queued until its reason is recorded; a rejection of the runner or
\* of the overallTimeout promise is taken by Promise.race, whose settlement
\* the await takes; and none of these late events changes a settled race.
C24_Step ==
  /\ HandlerQueued(st', mq')
  /\ (runnerP'.kind = "rejected" \/ overallP'.kind = "rejected")
       => raceP'.kind # "pending"
  /\ (raceP'.kind # "pending" /\ result'.kind = "pending")
       => \E k \in 1..Len(mq') : mq'[k] = Job("deliver", 0)
  /\ raceP.kind # "pending" => raceP' = raceP
  /\ result.kind # "pending" => result' = result

C24_RejectionsHandled == [][C24_Step]_vars

\* the runner rejected with all-failed after the overall timer had settled the
\* race, and the caller still holds the overall-timeout Error
C24_Witness ==
  /\ phase = "settled"
  /\ result = OverallTimeoutError(overallMs)
  /\ runnerP.cause = "All strategies failed"
  /\ \A i \in Strategies : st[i] = "recorded"

\* C25: the abort of raceAbort by a winner leaves the caller's signal and its
\* listeners alone and never makes the race report "Cancelled"; once the call
\* has settled the link is off the caller's signal, and an abort of that
\* signal no longer reaches raceAbort or any strategy.
C25_Step ==
  /\ (~done /\ done') => (extSig' = extSig /\ extListeners' = extListeners)
  /\ done' => (raceP' # CancelledError /\ result' # CancelledError)
  /\ phase' = "settled" => \A k \in 1..Len(extListeners') : extListeners'[k] # "link"
  /\ (phase = "settled" /\ extSig = "live" /\ extSig' = "aborted")
     => /\ raceAborted' = raceAborted
        /\ st' = st
        /\ out' = out
        /\ signalled' = signalled
        /\ result' = result

C25_LinkOneWayAndDetached == [][C25_Step]_vars

\* the caller aborted its signal after an all-failed race had settled, and
\* raceAbort was never aborted
C25_Witness ==
  /\ phase = "settled"
  /\ result.cause = "All strategies failed"
  /\ signalCfg = "live"
  /\ extSig = "aborted"
  /\ ~raceAborted

\* C26: an exception of the Jina adaptation step is recorded as the Jina
\* strategy's reason like any failure: the runner goes on with the other
\* strategies, a valid text of one of them still wins, and the caller never
\* gets the exception itself.
C26_AdapterThrowRecorded ==
  /\ result.kind = "rejected" => result.cause \in ErrorCauses
  /\ \A i \in Strategies :
       out[i].msg = AdapterMsg
       => /\ i = NumStrategies
          /\ st[i] = "recorded" =>
               \E k \in 1..Len(errors) : errors[k] = <<StrategyName(i), AdapterMsg>>
          /\ completed < NumStrategies => runnerP.kind # "rejected"
          /\ (extSig # "aborted" /\ \E j \in Strategies :
                Processed(j) /\ out[j].text \in SitemapTexts)
               => raceP.kind = "resolved"

\* the adapter threw, the exception was recorded, and a strategy that answered
\* afterwards won the race
C26_Witness ==
  /\ errors # <<>>
  /\ errors[1] = <<StrategyName(NumStrategies), AdapterMsg>>
  /\ result.kind = "resolved"

\* C29: the step that processes the first valid text resolves the runner and
\* the race and queues the continuation of the await, whatever the other
\* strategies have done so far; the continuation hands the race's value to
\* the caller without waiting for their reasons to be recorded.
C29_Step ==
  /\ \A i \in Strategies :
       (st[i] # "won" /\ st'[i] = "won")
       => /\ runnerP' = Resolved(StrategyName(i), out[i].text)
          /\ raceP.kind = "pending" =>
               /\ raceP' = runnerP'
               /\ mq'[Len(mq')] = Job("deliver", 0)
  /\ (raceP'.kind = "resolved" /\ result'.kind = "pending")
       => \E k \in 1..Len(mq') : mq'[k] = Job("deliver", 0)
  /\ (result.kind = "pending" /\ result'.kind = "resolved")
       => result' = Returned(raceP)

C29_WinResolvesAtOnce == [][C29_Step]_vars

\* the caller holds the winner's text while the three other strategies,
\* aborted, have not had their reasons recorded
C29_Witness ==
  /\ result.kind = "resolved"
  /\ errors = <<>>
  /\ Cardinality({i \in Strategies : st[i] = "thrown" /\ why[i] = "shared"})
       = NumStrategies - 1

\* C30: run is called once per strategy, with raceAbort.signal, and all four
\* calls are made before the reaction of any settled strategy runs; a strategy
\* that failed or whose text was invalid is not called again.
C30_Step ==
  /\ \A i \in Strategies :
       launches'[i] # launches[i]
       => /\ launches[i] = 0
          /\ launches'[i] = 1
          /\ sawAborted'[i] = raceAborted
          /\ linked'[i] = ~raceAborted
          /\ \A j \in Strategies : ~Processed(j)
  /\ (\E j \in Strategies : st'[j] \in {"thrown", "recorded", "won", "ignored"})
       => \A i \in Strategies : launches'[i] = 1

C30_EachStrategyLaunchedOnce == [][C30_Step]_vars

\* a settled race in which one strategy failed, another's text was invalid,
\* and each strategy was called once
C30_Witness ==
  /\ phase = "settled"
  /\ \A i \in Strategies : launches[i] = 1
  /\ \E i, j \in Strategies :
       /\ st[i] = "recorded" /\ out[i].msg = HttpMsg
       /\ st[j] = "recorded" /\ out[j].msg = NotXmlMsg

\* C31: an abort of the caller's signal on a running race aborts raceAbort in
\* the same dispatch; raceAbort is aborted once, and every later trigger (a
\* winner, the overall timer, the caller's abort) signals no strategy again:
\* each invocation receives at most one abort.
C31_Step ==
  /\ (signalCfg = "live" /\ phase = "running" /\ extSig = "live" /\ extSig' = "aborted")
     => /\ raceAborted'
        /\ \A i \in Strategies :
             /\ st'[i] # "inflight"
             /\ st[i] = "inflight" => signalled'[i] = signalled[i] + 1
  /\ raceAborted => (raceAborted' /\ signalled' = signalled)
  /\ \A i \in Strategies : signalled'[i] <= 1

C31_InternalAbortOnce == [][C31_Step]_vars

\* the caller's abort reached a race with its four invocations in flight and
\* nothing settled, and signalled each of them once
C31_Witness ==
  /\ signalCfg = "live"
  /\ extSig = "aborted"
  /\ earlyCancel
  /\ raceAborted
  /\ \A i \in Strategies : signalled[i] = 1 /\ why[i] = "shared"

(***************************************************************************)
(* The rejections of the strategies' operations, on their own: a default   *)
(* race with its four fetches in flight, each of which a non-OK response   *)
(* or a failed fetch rejects, or its own timer aborts.                     *)
(***************************************************************************)
\* new Error(`HTTP ${res.status}`) for two statuses, and the TypeError of fetch
RejectionMsgs == {HttpMsg, Msg("HTTP", 500), NetMsg}

\* the state of a race without configuration once its four launches have run
RejectInit ==
  /\ targetUrl = <<"sp", "u", "sp">>
  /\ perCfg = Undef
  /\ overallCfg = Undef
  /\ signalCfg = "none"
  /\ extSig = signalCfg
  /\ extListeners = <<>>
  /\ dispatching = <<>>
  /\ phase = "running"
  /\ perMs = PerStrategyTimeoutMs(perCfg)
  /\ overallMs = OverallTimeoutMs(perMs, overallCfg)
  /\ raceAborted = FALSE
  /\ ovTimer = "pending"
  /\ st = [i \in Strategies |-> "inflight"]
  /\ out = [i \in Strategies |-> NoOut]
  /\ why = [i \in Strategies |-> ""]
  /\ tmr = [i \in Strategies |-> "pending"]
  /\ linked = [i \in Strategies |-> TRUE]
  /\ launches = [i \in Strategies |-> 1]
  /\ sawAborted = [i \in Strategies |-> FALSE]
  /\ signalled = [i \in Strategies |-> 0]
  /\ recordedAt = [i \in Strategies |-> 0]
  /\ due = [i \in Strategies |-> StrategyTimeoutMs(i, perMs)]
  /\ settleOrder = <<>>
  /\ errors = <<>>
  /\ completed = 0
  /\ done = FALSE
  /\ runnerP = Pending
  /\ overallP = Pending
  /\ raceP = Pending
  /\ result = Pending
  /\ settles = 0
  /\ mq = <<>>
  /\ now = 0
  /\ earlyCancel = FALSE

\* if (!res.ok) throw new Error(`HTTP ${res.status}`), or fetch itself rejects
NetReject(i) ==
  \E m \in RejectionMsgs :
    NetSettle(i, ErrOut(FetchCatch(m, StrategyTimeoutMs(i, perMs))))

RejectNext ==
  \/ \E i \in Strategies : NetReject(i)
  \/ DoThenError
  \/ DoCatch
  \/ DoDeliver
  \/ Timers

RejectSpec == RejectInit /\ [][RejectNext]_vars

C33_NoListenerLeft == phase = "settled" => extListeners = <<>>

\* C34: when the effective overall timeout equals the effective per-strategy
\* timeout and no fetch ever answers (the caller's signal not aborted), the
\* overall timer fires before the timer of any strategy due at the same time,
\* and the race is undecided or rejected with the overall-timeout error, never
\* with "All strategies failed".
C34_EqualTimeoutsOverallFirst ==
  (/\ Trim(targetUrl) # <<>>
   /\ phase # "init"
   /\ perMs = overallMs
   /\ extSig # "aborted"
   /\ \A i \in Strategies : st[i] \in {"idle", "inflight"} \/ NeverAnswered(i))
  => /\ raceP.kind = "pending" \/ raceP = OverallTimeoutError(overallMs)
     /\ result.kind = "pending" \/ result = Returned(OverallTimeoutError(overallMs))
     /\ runnerP.kind = "pending" => completed < NumStrategies
     /\ raceP.kind = "pending" => ovTimer = "pending"
     /\ \A i \in Strategies : due[i] >= overallMs => why[i] # "own"

\* with both timeouts at 30 s, Direct and API timed out on their own, the
\* overall timer then aborted the two strategies due with it, and the caller
\* holds the overall-timeout error
C34_Witness ==
  /\ perMs = overallMs
  /\ phase = "settled"
  /\ result = Returned(OverallTimeoutError(overallMs))
  /\ why[1] = "own" /\ why[2] = "own"
  /\ \A i \in {3, 4} : why[i] = "shared" /\ due[i] = overallMs /\ st[i] = "recorded"

\* the reasons recorded under the name of strategy i
EntriesOf(i) == {k \in 1..Len(errors) : errors[k][1] = StrategyName(i)}

\* C35: the failure counter equals the number of recorded reasons and never
\* exceeds the number of strategies, every strategy has at most one recorded
\* reason (exactly one once its failure is recorded), and the step in which
\* the runner rejects with "All strategies failed" ends with the counter at
\* the number of strategies and no winner declared.
C35_State ==
  /\ completed = Len(errors)
  /\ completed <= NumStrategies
  /\ \A i \in Strategies :
       /\ Cardinality(EntriesOf(i)) <= 1
       /\ st[i] = "recorded" <=> EntriesOf(i) # {}
  /\ runnerP.cause = "All strategies failed"
       => /\ completed = NumStrategies
          /\ ~done
          /\ runnerP = AllFailedError(errors)

C35_Step ==
  (runnerP.kind = "pending" /\ runnerP'.kind = "rejected")
  => /\ completed = NumStrategies - 1
     /\ completed' = NumStrategies
     /\ ~done'
     /\ runnerP' = AllFailedError(errors')

C35_CounterMatchesReasons == []C35_State /\ [][C35_Step]_vars

\* the runner rejected with four reasons, one per strategy, no winner declared
C35_Witness ==
  /\ runnerP = AllFailedError(errors)
  /\ completed = NumStrategies
  /\ Len(errors) = NumStrategies
  /\ ~done
  /\ \A i \in Strategies : Cardinality(EntriesOf(i)) = 1

====
